---------------------------- MODULE Spec2Model ----------------------------
(***************************************************************************)
(* Price engine of the NFL player stock simulation.                        *)
(*                                                                         *)
(*  - apply_volatility_multiplier (scripts/compute_player_stock.py)        *)
(*  - compute_weekly_prices + append_price_history (the weekly pipeline    *)
(*    driven by run_weekly_update)                                         *)
(*  - update_weekly_prices (price file + CSV history store)                *)
(*                                                                         *)
(* Fixed-point conventions (all numbers are integers):                     *)
(*   changes (weekly_change, applied, cappedChange ...)  : units of 1e-4   *)
(*   sentiment_score                                     : units of 1e-1   *)
(*   sentiment_factor                                    : units of 1e-3   *)
(*   multiplier, tv_norm                                 : units of 1e-2   *)
(*   tanh values                                         : units of 1e-6   *)
(*   price (input of apply_volatility_multiplier)        : units of 1      *)
(*   newPrice                                            : units of 1e-7   *)
(*   prices of the weekly pipeline / price file          : cents           *)
(***************************************************************************)
EXTENDS Integers, Sequences, FiniteSets, TLC

VARIABLES
    res,          \* the DataFrame handed to apply_volatility_multiplier
    out,          \* the DataFrame it returns (<<>> before the call)
    weekly,       \* data/weekly/player_stats_{season}_week_{w}.csv
    prices,       \* data/prices/{season}/week_{w}.csv
    history,      \* data/history/{pid}_price_history.json
    stats,        \* external/tank01/player_stats_week_{w}.csv
    price_map,    \* external/history/player_prices.json
    csv_history,  \* external/history/player_price_history.csv
    json_history, \* data/price_history.json
    updated_log,  \* every updated_rows entry update_weekly_prices produced
    last_run,     \* the last script run and how it ended
    df,           \* the input CSV of compute_player_stock_summary
    result,       \* its per-record result table (<<>> before the call)
    summary,      \* the summary it returns (latest record of each player)
    timeline_rows \* data/player_stock_history.csv

volVars  == <<res, out>>
pipeVars == <<weekly, prices, history>>
updVars  == <<stats, price_map, csv_history, json_history, updated_log>>
sumVars  == <<df, result, summary, timeline_rows>>
vars     == <<res, out, weekly, prices, history, stats, price_map,
              csv_history, json_history, updated_log, last_run,
              df, result, summary, timeline_rows>>

----------------------------------------------------------------------------
(* Integer helpers standing for float arithmetic *)

Abs(x) == IF x < 0 THEN -x ELSE x

Sign(x) == IF x < 0 THEN -1 ELSE IF x > 0 THEN 1 ELSE 0

Min2(a, b) == IF a < b THEN a ELSE b

Max2(a, b) == IF a > b THEN a ELSE b

\* pandas Series.clip(lower, upper) / max(lo, min(hi, v))
Clip(x, lo, hi) == Max2(lo, Min2(hi, x))

\* a / b rounded to the nearest integer (b > 0), sign-symmetric
RDiv(a, b) == Sign(a) * ((Abs(a) + (b \div 2)) \div b)

RECURSIVE SqrtSearch(_, _, _)
SqrtSearch(q, lo, hi) ==
    IF lo >= hi THEN lo
    ELSE LET mid == (lo + hi + 1) \div 2
         IN  IF mid * mid <= q THEN SqrtSearch(q, mid, hi)
             ELSE SqrtSearch(q, lo, mid - 1)

\* floor of the square root of q (0 <= q < 2^20)
ISqrt(q) == SqrtSearch(q, 0, 1023)

RECURSIVE SumSeq(_)
SumSeq(s) == IF s = <<>> THEN 0 ELSE Head(s) + SumSeq(Tail(s))

----------------------------------------------------------------------------
(* apply_volatility_multiplier                                             *)

\* np.tanh on the grid 0.0, 0.1, ..., 5.0 (values in 1e-6)
TanhTable ==
    << 0, 99668, 197375, 291313, 379949, 462117, 537050, 604368, 664037,
       716298, 761594, 800499, 833655, 861723, 885352, 905148, 921669,
       935409, 946806, 956237, 964028, 970452, 975743, 980096, 983675,
       986614, 989027, 991007, 992632, 993963, 995055, 995949, 996682,
       997283, 997775, 998178, 998508, 998778, 999000, 999181, 999329,
       999451, 999550, 999632, 999699, 999753, 999798, 999835, 999865,
       999889, 999909 >>

\* np.tanh(x), x in 1e-4, result in 1e-6: linear interpolation of the
\* table, odd, saturating at 1 beyond 5.0
Tanh(x) ==
    LET a == Abs(x)
        i == a \div 1000
        f == a % 1000
    IN  IF a >= 50000 THEN Sign(x) * 1000000
        ELSE Sign(x) * (TanhTable[i + 1]
                        + ((TanhTable[i + 2] - TanhTable[i + 1]) * f) \div 1000)

\* wk_ser > 0, or a game date is present (lines 54-57)
has_game(r) == r.week > 0 \/ r.game_date # "NaT"

\* is_playoff / game_type / event (lines 62-84)
playoff_mask(r) ==
    \/ r.is_playoff
    \/ r.game_type \in {"post", "playoff"}
    \/ r.event = "super bowl"

\* is_primetime flag, weekday of the game date in [0, 3, 6], or an evening
\* kickoff (lines 87-111)
primetime_mask(r) ==
    \/ r.is_primetime
    \/ r.game_date \in {"Mon", "Thu", "Sun"}
    \/ r.kickoff = "evening"

\* a multiplier in which primetime overrides the playoff value
multiplier_primetime_last(r) ==
    IF primetime_mask(r) THEN 175
    ELSE IF playoff_mask(r) THEN 200
    ELSE IF has_game(r) THEN 150 ELSE 100

\* lines 43, 60, 85, 112-113 (units of 1e-2)
multiplier(r) ==
    LET m0 == 100
        m1 == IF has_game(r) THEN 150 ELSE m0
        m2 == IF playoff_mask(r) THEN 200 ELSE m1
    IN  IF primetime_mask(r) THEN Max2(m2, 175) ELSE m2

\* line 136 (units of 1e-3)
sentiment_factor(r) == Clip(1000 + 10 * r.sentiment_score, 800, 1200)

\* line 116
had_trading_volume(b) == \E i \in 1..Len(b) : b[i].has_tv

\* lines 117-124: to_numeric(...).fillna(0), 0 when the column is absent
tv(r) == IF r.has_tv THEN r.trading_volume ELSE 0

\* (tv - tv.mean()) / tv.std() with the sample standard deviation, 0 when
\* the deviation is NaN (one row) or 0 (lines 220-227, 266-271); 1e-2
tv_norm(b, i) ==
    LET n  == Len(b)
        S  == SumSeq([k \in 1..n |-> tv(b[k])])
        d  == [k \in 1..n |-> n * tv(b[k]) - S]
        SS == SumSeq([k \in 1..n |-> d[k] * d[k]])
    IN  IF n < 2 \/ SS = 0 THEN 0
        ELSE Sign(d[i]) * ISqrt((d[i] * d[i] * (n - 1) * 10000) \div SS)

\* 0.02 * tv_norm + 0.01 * sscore (lines 228, 272)
market_change(b, i) == 2 * tv_norm(b, i) + 10 * b[i].sentiment_score

\* market_change * multiplier (lines 230, 274)
market_change_amplified(b, i) ==
    RDiv(market_change(b, i) * multiplier(b[i]), 100)

\* a fallback test that looks at the first row only
all_zero_first_row(b) == b[1].weekly_change = 0

\* weekly_change.abs().max() == 0 (line 155); an absent column and a
\* non-numeric cell are 0 (lines 39-40, 142)
all_zero(b) == \A i \in 1..Len(b) : b[i].weekly_change = 0

\* delta = (actual - proj) / proj where a projection is present and
\* non-zero, else the missing penalty -0.5 (lines 171-192)
proj_delta(actual, proj) ==
    IF proj # 0 THEN RDiv((actual - proj) * 10000, proj) ELSE -5000

\* line 194
projection_delta(r) ==
    RDiv(20 * proj_delta(r.pass_yards, r.proj_yards)
         + 15 * proj_delta(r.pass_tds, r.proj_tds)
         - 20 * proj_delta(r.ints, r.proj_ints), 100)

\* line 202: 0.35*z_epa + 0.25*z_cpoe + projection_delta (z in 1e-2)
raw_alt(r) == 35 * r.z_epa_per_play + 25 * r.z_cpoe + projection_delta(r)

\* sign-aware sentiment (lines 252-262)
perf(r) ==
    IF r.weekly_change >= 0
    THEN RDiv(r.weekly_change * sentiment_factor(r), 1000)
    ELSE RDiv(r.weekly_change * 1000, sentiment_factor(r))

\* lines 212 (fallback) and 262 (normal path)
performance_change(b, i) ==
    IF all_zero(b) THEN raw_alt(b[i]) ELSE perf(b[i])

\* 0.7 * performance_change + 0.3 * market_change_amplified (239, 298)
total_change(b, i) ==
    RDiv(7 * performance_change(b, i) + 3 * market_change_amplified(b, i), 10)

\* the combined change passed through without squashing
tanh_smoothed_identity(t) == t

\* 0.25 * np.tanh(2.5 * total_change) (line 305)
tanh_smoothed(t) == RDiv(Tanh(RDiv(5 * t, 2)), 400)

\* performance_change * multiplier (lines 287, 311)
raw_mult(b, i) == RDiv(performance_change(b, i) * multiplier(b[i]), 100)

\* a hard-cap test that ignores the size of the upstream weekly_change
over_mask_any_change(b, i) == Abs(raw_mult(b, i)) > 2000

\* line 322
over_mask(b, i) ==
    Abs(raw_mult(b, i)) > 2000 /\ Abs(b[i].weekly_change) >= 2000

\* applied (lines 239, 287, 338)
applied(b, i) ==
    IF all_zero(b) THEN total_change(b, i)
    ELSE IF Len(b) = 1 THEN raw_mult(b, i)
    ELSE total_change(b, i)

\* capping without the single-row branch
capped_change_no_legacy(b, i) ==
    IF all_zero(b) THEN Clip(total_change(b, i), -2000, 2000)
    ELSE IF over_mask(b, i) THEN Clip(raw_mult(b, i), -2000, 2000)
    ELSE tanh_smoothed(total_change(b, i))

\* capped_change (lines 242, 296, 322-325)
capped_change(b, i) ==
    IF all_zero(b) THEN Clip(total_change(b, i), -2000, 2000)
    ELSE IF Len(b) = 1 THEN Clip(raw_mult(b, i), -2000, 2000)
    ELSE IF over_mask(b, i) THEN Clip(raw_mult(b, i), -2000, 2000)
    ELSE tanh_smoothed(total_change(b, i))

\* not gameday and not playoff; False when there is no is_gameday column
\* (a NaN in a present column is truthy) (lines 346-357)
offseason_mask(r) == r.is_gameday = "False" /\ ~playoff_mask(r)

\* new prices with the decay applied to every row that is not a gameday
\* row, playoff rows included
new_price_series_decay_playoff(b, i) ==
    LET pre == b[i].price * (10000 + capped_change(b, i))
        np  == IF b[i].is_gameday = "False" THEN pre * 995 ELSE pre * 1000
    IN  IF had_trading_volume(b) THEN RDiv(np, 1000) * 1000 ELSE np

\* price * (1 + cappedChange), times 0.995 for offseason rows, rounded to
\* 4 decimals when the batch came with trading_volume (lines 376-400)
new_price_series(b, i) ==
    LET pre == b[i].price * (10000 + capped_change(b, i))
        np  == IF offseason_mask(b[i]) THEN pre * 995 ELSE pre * 1000
    IN  IF had_trading_volume(b) THEN RDiv(np, 1000) * 1000 ELSE np

\* rawChange (lines 146, 206, 361)
rawChange(b, i) == IF all_zero(b) THEN raw_alt(b[i]) ELSE b[i].weekly_change

\* the projection_delta column, written by the fallback only (line 200):
\* <<>> when the column is absent, else <<value>>
projection_delta_col(b, i) ==
    IF all_zero(b) THEN <<projection_delta(b[i])>> ELSE <<>>

apply_volatility_multiplier(b) ==
    [i \in 1..Len(b) |->
        [ rawChange               |-> rawChange(b, i),
          projection_delta        |-> projection_delta_col(b, i),
          multiplier              |-> multiplier(b[i]),
          sentiment_factor        |-> sentiment_factor(b[i]),
          offseason_decay_applied |-> offseason_mask(b[i]),
          applied_weekly_change   |-> applied(b, i),
          cappedChange            |-> capped_change(b, i),
          newPrice                |-> new_price_series(b, i) ]]


----------------------------------------------------------------------------
(* Inputs of apply_volatility_multiplier                                   *)

\* largest batch handed to apply_volatility_multiplier
MaxRows == 2

DefaultRow ==
    [ weekly_change   |-> 500,   week           |-> 1,
      game_date       |-> "NaT", is_playoff     |-> FALSE,
      game_type       |-> "",    event          |-> "",
      is_primetime    |-> FALSE, kickoff        |-> "",
      is_gameday      |-> "absent",
      sentiment_score |-> 0,     has_tv         |-> FALSE,
      trading_volume  |-> 0,     price          |-> 100,
      z_epa_per_play  |-> 0,     z_cpoe         |-> 0,
      pass_yards      |-> 0,     proj_yards     |-> 0,
      pass_tds        |-> 0,     proj_tds       |-> 0,
      ints            |-> 0,     proj_ints      |-> 0 ]

\* every combination of the context flags
CtxRows ==
    { [DefaultRow EXCEPT !.week = w, !.game_date = d,
                         !.is_playoff = po, !.is_primetime = pt] :
        w \in {0, 1}, d \in {"NaT", "Tue", "Thu"},
        po \in BOOLEAN, pt \in BOOLEAN }
    \cup { [DefaultRow EXCEPT !.week = 0, !.game_type = "post"],
           [DefaultRow EXCEPT !.week = 0, !.event = "super bowl"],
           [DefaultRow EXCEPT !.week = 0, !.kickoff = "evening"] }

\* game-week and off-week rows, with and without trading volume
DecayRows ==
    { [DefaultRow EXCEPT !.weekly_change = 400, !.price = 50,
                         !.is_gameday = g, !.is_playoff = po, !.week = w,
                         !.has_tv = t, !.trading_volume = IF t THEN 10 ELSE 0,
                         !.sentiment_score = IF t THEN 8 ELSE 0] :
        g \in {"True", "False"}, po \in BOOLEAN, w \in {0, 1},
        t \in BOOLEAN }

\* small, large and extreme changes under weak and strong sentiment
VolRows ==
    { [DefaultRow EXCEPT !.weekly_change = c, !.sentiment_score = s,
                         !.is_playoff = po] :
        c \in {-3000, -2000, 1900, 2000, 3000},
        s \in {-10, 10, 1000}, po \in BOOLEAN }
    \cup { [DefaultRow EXCEPT !.has_tv = TRUE, !.trading_volume = 0,
                              !.weekly_change = 100],
           [DefaultRow EXCEPT !.weekly_change = 2000, !.is_playoff = TRUE] }

\* rows without an upstream weekly_change (projection fallback)
FallbackRows ==
    { [DefaultRow EXCEPT !.weekly_change = 0, !.week = 0,
                         !.is_gameday = "False", !.price = 120,
                         !.pass_yards = y[1], !.proj_yards = y[2],
                         !.pass_tds = t[1], !.proj_tds = t[2],
                         !.proj_ints = t[2],
                         !.z_epa_per_play = z, !.is_playoff = po] :
        y \in {<<200, 100>>, <<50, 0>>}, t \in {<<2, 1>>, <<0, 0>>},
        z \in {0, 150}, po \in BOOLEAN }

\* a record that meets its three projections exactly, and the same record
\* with every subset of the projections missing (0 stands for a missing or
\* zero projection, which lines 175-177 treat alike)
ProjRows ==
    { [DefaultRow EXCEPT !.weekly_change = 0, !.week = 0,
                         !.is_gameday = "False", !.price = 120,
                         !.pass_yards = 100, !.proj_yards = py,
                         !.pass_tds = 1, !.proj_tds = pt,
                         !.ints = 1, !.proj_ints = pi] :
        py \in {100, 0}, pt \in {1, 0}, pi \in {1, 0} }

\* a row whose price cell is 0, empty or not a number: pd.to_numeric with
\* errors="coerce" and fillna(0.0) read all three as 0 (line 378)
UnpricedRows == { [DefaultRow EXCEPT !.price = 0, !.weekly_change = 400] }

Rows == CtxRows \cup DecayRows \cup VolRows \cup FallbackRows \cup ProjRows
        \cup UnpricedRows

InitVol == res = <<>> /\ out = <<>>

\* the caller builds the DataFrame row by row
AddRow(r) ==
    /\ out = <<>>
    /\ Len(res) < MaxRows
    /\ res' = Append(res, r)
    /\ UNCHANGED <<out, pipeVars, updVars, last_run, sumVars>>

\* out = apply_volatility_multiplier(df.copy(), price_col="price")
Apply ==
    /\ res # <<>>
    /\ out = <<>>
    /\ out' = apply_volatility_multiplier(res)
    /\ UNCHANGED <<res, pipeVars, updVars, last_run, sumVars>>

NextVol == (\E r \in Rows : AddRow(r)) \/ Apply

----------------------------------------------------------------------------
(* The weekly pipeline: compute_weekly_prices, append_price_history,       *)
(* run_weekly_update                                                       *)

Players == {"p1", "p2"}

\* highest week number of the season under study
MaxWeek == 2

Weeks == 1..MaxWeek

\* longest per-player history the scripts are run up to
MaxHist == 3

NoFile == [exists |-> FALSE, rows |-> <<>>]

File(rows) == [exists |-> TRUE, rows |-> rows]

StatRow(p, e, y, t, v) ==
    [playerId |-> p, epa |-> e, yards |-> y, tds |-> t, vol |-> v]

\* contents a weekly player_stats CSV may have
WeeklyFiles ==
    { <<>>,
      << StatRow("p1", 0, 50, 1, 5) >>,
      << StatRow("p1", 0, 50, 1, 5), StatRow("p2", -50, 0, 0, 0) >>,
      << StatRow("", 0, 50, 1, 5) >> }

\* the last use of key k in rows wins, as in a dict built in a loop
LastIndex(rows, k) ==
    CHOOSE i \in 1..Len(rows) :
        /\ rows[i].playerId = k
        /\ \A j \in (i + 1)..Len(rows) : rows[j].playerId # k

\* {pid: price} of a prices CSV (compute 128-129, append 105-115)
PriceDict(rows) ==
    [k \in {rows[i].playerId : i \in 1..Len(rows)} \ {""} |->
        rows[LastIndex(rows, k)].price]

\* rows with a player id (compute_weekly_prices lines 106-114)
parsed(rows) == SelectSeq(rows, LAMBDA r : r.playerId # "")

\* score / 100 clamped to +-0.15, movements under 0.005 dropped
\* (compute_weekly_prices lines 153-157); units of 1e-4
delta_pct(p) ==
    LET score == 12 * p.epa + 600 * p.tds + 8 * p.yards + 40 * p.vol
        d     == Clip(score, -1500, 1500)
    IN  IF Abs(d) < 50 THEN 0 ELSE d

\* prev_prices: the previous week's price file, else the last history
\* price of every parsed player that has a history (lines 123-147)
prev_prices(pr, hist, w, rows) ==
    LET fromFile == IF pr[w - 1].exists THEN PriceDict(pr[w - 1].rows)
                    ELSE << >>
        pids     == {rows[i].playerId : i \in 1..Len(rows)}
    IN  IF DOMAIN fromFile # {} THEN fromFile
        ELSE [k \in {q \in pids : hist[q] # <<>>} |->
                hist[k][Len(hist[k])].price]

\* out_rows (lines 149-160)
out_rows(pr, hist, w) ==
    LET rows == parsed(weekly[w].rows)
        prev == prev_prices(pr, hist, w, rows)
    IN  [i \in 1..Len(rows) |->
            LET pid  == rows[i].playerId
                base == IF pid \in DOMAIN prev THEN prev[pid] ELSE 10000
            IN  [ playerId |-> pid, week |-> w,
                  price |-> RDiv(base * (10000 + delta_pct(rows[i])), 10000) ]]

\* exit status of compute_weekly_prices (lines 93-102)
compute_status(w) ==
    IF ~weekly[w].exists THEN 2
    ELSE IF weekly[w].rows = <<>> THEN 3 ELSE 0

\* the price files after compute_weekly_prices --week w
compute_weekly_prices(pr, hist, w) ==
    IF compute_status(w) # 0 THEN pr
    ELSE [pr EXCEPT ![w] = File(out_rows(pr, hist, w))]

\* a history writer that puts the new entry in front of the stored ones
append_one_prepend(hist, pmap, pid, w, dnp_penalty) ==
    LET h     == hist[pid]
        close == IF pid \in DOMAIN pmap THEN pmap[pid] ELSE 1000
        entry == [ week |-> w, price |-> close, open |-> close,
                   high |-> close, low |-> close, close |-> close,
                   reason |-> "STATS" ]
    IN  IF h # <<>> /\ h[Len(h)].week = w THEN h ELSE <<entry>> \o h

\* one player's history after append_price_history --week w (141-191)
append_one(hist, pmap, pid, w, dnp_penalty) ==
    LET h          == hist[pid]
        prev_close == IF h # <<>> THEN h[Len(h)].price ELSE 10000
        skip       == h # <<>> /\ h[Len(h)].week = w
        dnp        == prev_close + RDiv(prev_close * dnp_penalty, 100)
        close      == IF pid \in DOMAIN pmap THEN pmap[pid]
                      ELSE Max2(dnp, 1000)
        entry      == [ week   |-> w,
                        price  |-> close,
                        open   |-> prev_close,
                        high   |-> RDiv(Max2(prev_close, close) * 105, 100),
                        low    |-> RDiv(Min2(prev_close, close) * 95, 100),
                        close  |-> close,
                        reason |-> IF pid \in DOMAIN pmap THEN "STATS"
                                   ELSE "DNP" ]
    IN  IF skip THEN h ELSE Append(h, entry)

\* all histories after append_price_history --week w (lines 100-193)
append_price_history(pr, hist, w, dnp_penalty) ==
    IF ~pr[w].exists \/ pr[w].rows = <<>> THEN hist
    ELSE LET pmap     == PriceDict(pr[w].rows)
             all_pids == DOMAIN pmap \cup {p \in Players : hist[p] # <<>>}
         IN  [p \in Players |->
                IF p \in all_pids
                THEN append_one(hist, pmap, p, w, dnp_penalty)
                ELSE hist[p]]

\* exit status of append_price_history (lines 29-31, 101-103)
append_status(pr, w) == IF pr[w].exists THEN 0 ELSE 2

\* what a finished run leaves behind: script, exit status, --week,
\* --force-append and the players it reported as updated
Run(script, status, week, force, updated) ==
    [ script |-> script, status |-> status, week |-> week,
      force |-> force, updated |-> updated ]

HistRoom == \A p \in Players : Len(history[p]) < MaxHist

InitPipe ==
    /\ weekly \in [Weeks -> {NoFile} \cup {File(f) : f \in WeeklyFiles}]
    /\ prices = [w \in 0..MaxWeek |-> NoFile]
    /\ history = [p \in Players |-> <<>>]

\* python scripts/compute_weekly_prices.py --week w
ComputeWeeklyPrices(w) ==
    /\ prices' = compute_weekly_prices(prices, history, w)
    /\ last_run' = Run("compute_weekly_prices", compute_status(w), w,
                        FALSE, {})
    /\ UNCHANGED <<weekly, history, volVars, updVars, sumVars>>

\* python scripts/append_price_history.py --week w [--dnp-penalty x]
AppendPriceHistory(w, dnp_penalty) ==
    /\ HistRoom
    /\ history' = append_price_history(prices, history, w, dnp_penalty)
    /\ last_run' = Run("append_price_history", append_status(prices, w), w,
                        FALSE, {})
    /\ UNCHANGED <<weekly, prices, volVars, updVars, sumVars>>

\* python scripts/run_weekly_update.py --week w: compute, then append with
\* the orchestrator's --dnp-penalty default, when the weekly CSV has rows
RunWeeklyUpdate(w) ==
    /\ HistRoom
    /\ LET valid == weekly[w].exists /\ weekly[w].rows # <<>>
           pr1   == compute_weekly_prices(prices, history, w)
       IN  /\ prices' = IF valid THEN pr1 ELSE prices
           /\ history' = IF valid
                         THEN append_price_history(pr1, history, w, 5)
                         ELSE history
    /\ last_run' = Run("run_weekly_update", 0, w, FALSE, {})
    /\ UNCHANGED <<weekly, volVars, updVars, sumVars>>

NextPipe ==
    \/ \E w \in Weeks : ComputeWeeklyPrices(w)
    \/ \E w \in Weeks : \E pen \in {-7, 5} : AppendPriceHistory(w, pen)
    \/ \E w \in Weeks : RunWeeklyUpdate(w)

----------------------------------------------------------------------------
(* update_weekly_prices                                                    *)

\* datetime.utcnow().year of the runs (line 444)
Season == 2025

\* number of price updates the runs are followed for
MaxUpdates == 3

UpdRow(p, n, s, e) ==
    [playerId |-> p, playerName |-> n, perf |-> s, has_epa |-> e,
     has_fp |-> FALSE, fantasyPoints |-> 0]

\* contents a tank01 player_stats CSV may have; perf is the row's
\* compute_scores value in 1e-2
StatsFiles ==
    { << UpdRow("p1", "One", 40, TRUE) >>,
      << UpdRow("p1", "One", 40, TRUE), UpdRow("p2", "Two", -20, FALSE) >>,
      << UpdRow("p1", "One", 0, TRUE),
         [UpdRow("p2", "Two", 20, TRUE) EXCEPT !.has_fp = TRUE,
                                               !.fantasyPoints = 10] >>,
      << UpdRow("p1", "One", 40, TRUE), UpdRow("NaN", "NaN", 30, TRUE) >>,
      << UpdRow("", "", 30, TRUE) >> }

\* str() of a CSV cell read by pandas: an empty cell is the float NaN,
\* written "NaN" here, and str(NaN) is 'nan'; "" stands for a column the
\* file does not have (r.get gives None, read as '')
Str(x) == IF x = "NaN" THEN "nan" ELSE x

\* pid of a row: the first id column with a truthy value (NaN is truthy),
\* else the name columns (lines 363-367)
row_pid(r) == IF r.playerId # "" THEN Str(r.playerId) ELSE Str(r.playerName)

\* compute_scores: pid -> performance score, the last row of a pid wins
\* (lines 96-100, 236)
scores(rows) ==
    LET key(r) == IF row_pid(r) # "" THEN row_pid(r) ELSE "unknown"
        last(k) == CHOOSE i \in 1..Len(rows) :
                      /\ key(rows[i]) = k
                      /\ \A j \in (i + 1)..Len(rows) : key(rows[j]) # k
    IN  [k \in {key(rows[i]) : i \in 1..Len(rows)} |-> rows[last(k)].perf]

\* find_latest_stats_csv: the file of the highest week (lines 33-51)
find_latest_stats_csv ==
    LET present == {w \in Weeks : stats[w].exists}
    IN  IF present = {} THEN NoFile
        ELSE stats[CHOOSE w \in present : \A v \in present : v <= w]

\* the explicit week file when it exists, else the latest (lines 261-264)
stats_csv(w) == IF stats[w].exists THEN stats[w] ELSE find_latest_stats_csv

\* the loop body of main for one row (lines 362-451); st carries
\* price_map and updated_rows
update_row(st, r, sc, wk, force) ==
    LET pid       == row_pid(r)
        known     == pid \in DOMAIN st.price_map
        last_week == IF known THEN st.price_map[pid].lastUpdatedWeek ELSE 0
        stored    == IF known THEN st.price_map[pid].currentPrice ELSE 0
        base      == IF r.has_fp
                     THEN Max2(500, 400 * r.fantasyPoints + 5000)
                     ELSE 10000
        current   == IF stored <= 0 THEN base ELSE stored
        perfv     == IF pid \in DOMAIN sc THEN sc[pid] ELSE 0
        prev_pct  == IF known THEN st.price_map[pid].weeklyChangePercent
                     ELSE 0
        raw       == (IF r.has_epa THEN 25 * perfv ELSE RDiv(25 * perfv, 2))
                     + RDiv(prev_pct, 10)
        pct       == Clip(raw, -2500, 2500)
        new_price == Max2(100, RDiv(current * (10000 + pct), 10000))
        entry     == [ playerId            |-> pid,
                       previousPrice       |-> current,
                       currentPrice        |-> new_price,
                       weeklyChangePercent |-> pct,
                       lastUpdatedWeek     |-> wk ]
        hrow      == [ playerId          |-> pid,
                       playerName        |-> Str(r.playerName),
                       season            |-> Season,
                       week              |-> wk,
                       price             |-> new_price,
                       priceChangePct    |-> pct,
                       performance_score |-> perfv,
                       weekly_pct_change |-> pct ]
    IN  IF pid = "" THEN st
        ELSE IF last_week = wk /\ ~force THEN st
        ELSE IF pct = 0 /\ ~force THEN st
        ELSE [ price_map    |-> [k \in DOMAIN st.price_map \cup {pid} |->
                                    IF k = pid THEN entry
                                    ELSE st.price_map[k]],
               updated_rows |-> Append(st.updated_rows, hrow) ]

RECURSIVE update_rows(_, _, _, _, _)
update_rows(st, rows, sc, wk, force) ==
    IF rows = <<>> THEN st
    ELSE update_rows(update_row(st, Head(rows), sc, wk, force),
                     Tail(rows), sc, wk, force)

\* (playerId, season, week) of a history row (lines 476, 484)
hist_key(hr) == <<hr.playerId, hr.season, hr.week>>

\* updated_rows whose key is not yet in the CSV (lines 471-487)
rows_to_append(csv, updated_rows) ==
    LET existing_keys == {hist_key(csv[i]) : i \in 1..Len(csv)}
    IN  SelectSeq(updated_rows, LAMBDA hr : hist_key(hr) \notin existing_keys)

PidsOf(rows) == {rows[i].playerId : i \in 1..Len(rows)}

InitUpd ==
    /\ stats \in [Weeks -> {NoFile} \cup {File(f) : f \in StatsFiles}]
    /\ price_map = << >>
    /\ csv_history = << >>
    /\ json_history = << >>
    /\ updated_log = << >>

\* python scripts/update_weekly_prices.py --season s --week wk
\* [--force-append]; the block that appends to data/price_history.json
\* (lines 505-549) is the body of the handler of a failed CSV append
\* (line 502), so a run whose CSV append succeeds leaves that file alone
UpdateWeeklyPrices(wk, force) ==
    /\ Len(updated_log) < MaxUpdates
    /\ LET f   == stats_csv(wk)
           st  == update_rows([price_map |-> price_map,
                               updated_rows |-> << >>],
                              f.rows, scores(f.rows), wk, force)
       IN  IF ~f.exists
           THEN /\ UNCHANGED <<price_map, csv_history, updated_log>>
                /\ last_run' = Run("update_weekly_prices", 0, wk, force, {})
           ELSE /\ price_map' = st.price_map
                /\ csv_history' = csv_history
                       \o rows_to_append(csv_history, st.updated_rows)
                /\ updated_log' = updated_log
                       \o [i \in 1..Len(st.updated_rows) |->
                              [ playerId |-> st.updated_rows[i].playerId,
                                week     |-> wk,
                                force    |-> force ]]
                /\ last_run' = Run("update_weekly_prices", 0, wk, force,
                                   PidsOf(st.updated_rows))
    /\ UNCHANGED <<stats, json_history, volVars, pipeVars, sumVars>>

NextUpd == \E wk \in Weeks : \E force \in BOOLEAN : UpdateWeeklyPrices(wk, force)

----------------------------------------------------------------------------
(* merge_price_history_csv_to_json                                         *)
(*                                                                         *)
(* A CSV row is a record of its non-empty cells: a row without a "price"   *)
(* field has an empty price cell, playerId "" an empty id cell. A point's  *)
(* label "<season>-W<week>" is kept as the pair <<season, week>>.          *)

\* longest CSV history handed to the merge
MaxCsv == 3

HistRow(p, s, w, price, pct) ==
    [ playerId          |-> p,      playerName        |-> p,
      season            |-> s,      week              |-> w,
      price             |-> price,  priceChangePct    |-> pct,
      performance_score |-> pct,    weekly_pct_change |-> pct ]

\* rows an append-only CSV may hold, among them a row without an id and a
\* row without a price
MergeCsvRows ==
    { HistRow("p1", s, w, c, c - 10000) :
        s \in {2024, 2025}, w \in {1, 2}, c \in {10000, 11000} }
    \cup { HistRow("p2", 2025, 1, 9000, -1000),
           HistRow("", 2025, 1, 9000, -1000),
           [ playerId |-> "p2", playerName |-> "p2", season |-> 2025,
             week |-> 2 ] }

\* get(k): the cell of column k, absent when the cell is empty (34-40)
has_cell(row, k) == k \in DOMAIN row

\* rows with a player id and a price (lines 42-72)
merge_usable(row) == row.playerId # "" /\ has_cell(row, "price")

\* (season_i, week_i) of a row (lines 48-60)
merge_key(row) == <<row.season, row.week>>

\* a merge that keeps the first row seen for a (season, week)
stored_row_first_seen(csv, pid, k) ==
    csv[CHOOSE i \in 1..Len(csv) :
            /\ merge_usable(csv[i]) /\ csv[i].playerId = pid
            /\ merge_key(csv[i]) = k
            /\ \A j \in 1..(i - 1) :
                  ~(merge_usable(csv[j]) /\ csv[j].playerId = pid
                    /\ merge_key(csv[j]) = k)]

\* grouped[player_id][(season_i, week_i)]: every row overwrites the one
\* stored before it under the same key (lines 92-100)
stored_row(csv, pid, k) ==
    csv[CHOOSE i \in 1..Len(csv) :
            /\ merge_usable(csv[i]) /\ csv[i].playerId = pid
            /\ merge_key(csv[i]) = k
            /\ \A j \in (i + 1)..Len(csv) :
                  ~(merge_usable(csv[j]) /\ csv[j].playerId = pid
                    /\ merge_key(csv[j]) = k)]

\* tuple order of sorted(points_map.keys()) (line 106)
key_less(a, b) == a[1] < b[1] \/ (a[1] = b[1] /\ a[2] < b[2])

RECURSIVE keys_sorted(_)
keys_sorted(ks) ==
    IF ks = {} THEN <<>>
    ELSE LET k == CHOOSE a \in ks : \A b \in ks \ {a} : key_less(a, b)
         IN  <<k>> \o keys_sorted(ks \ {k})

\* one output point (lines 92-100, 108-118); the optional fields are
\* there when their cells are
merge_point(row) ==
    [ t |-> merge_key(row), p |-> row.price,
      weekly_pct_change |->
          IF has_cell(row, "weekly_pct_change")
          THEN <<row.weekly_pct_change>> ELSE <<>>,
      performance_score |->
          IF has_cell(row, "performance_score")
          THEN <<row.performance_score>> ELSE <<>> ]

\* out: playerId -> points sorted by (season, week) (lines 26-119)
merge_price_history_csv_to_json(csv) ==
    LET used == {i \in 1..Len(csv) : merge_usable(csv[i])}
        pids == {csv[i].playerId : i \in used}
        keys(pid) == {merge_key(csv[i]) : i \in {j \in used :
                                                   csv[j].playerId = pid}}
    IN  [pid \in pids |->
            LET ks == keys_sorted(keys(pid))
            IN  [n \in 1..Len(ks) |->
                    merge_point(stored_row(csv, pid, ks[n]))]]

\* the CSV history the merge is run on
InitMerge ==
    /\ csv_history \in UNION { [1..n -> MergeCsvRows] : n \in 0..MaxCsv }
    /\ stats = [w \in Weeks |-> NoFile]
    /\ price_map = << >>
    /\ json_history = << >>
    /\ updated_log = << >>

\* python scripts/merge_price_history_csv_to_json.py
MergePriceHistoryCsvToJson ==
    /\ json_history' = merge_price_history_csv_to_json(csv_history)
    /\ last_run' = Run("merge_price_history_csv_to_json", 0, 0, FALSE, {})
    /\ UNCHANGED <<stats, price_map, csv_history, updated_log,
                   volVars, pipeVars, sumVars>>

NextMerge == MergePriceHistoryCsvToJson

----------------------------------------------------------------------------
(* compute_player_stock_summary                                            *)
(*                                                                         *)
(* A record of the input table has the columns player, week, position      *)
(* ("" when the label is absent), game_date (<<>> for a missing or         *)
(* unparseable date, else <<d>> with d the day offset from 2025-09-05),    *)
(* price and the numeric stat columns. z-scores are in 1e-2, weekly_change *)
(* and stock in 1e-4.                                                      *)

\* the columns compute_stock_qb z-scores (lines 568-578) and the further
\* numeric columns of the table, z-scored by the loop of lines 1244-1262
ZColumns ==
    { "epa_per_play", "cpoe", "pass_yards", "pass_tds", "ints",
      "rush_yards", "rush_tds", "targets", "rec_yards" }

\* ((ser - mean) / std).clip(-6, 6) over the whole table with the sample
\* standard deviation, 0 when it is 0 or undefined (lines 602-607,
\* 1257-1262)
zscore(t, c, i) ==
    LET n  == Len(t)
        S  == SumSeq([k \in 1..n |-> t[k][c]])
        d  == [k \in 1..n |-> n * t[k][c] - S]
        SS == SumSeq([k \in 1..n |-> d[k] * d[k]])
    IN  IF n < 2 \/ SS = 0 THEN 0
        ELSE Clip(Sign(d[i]) * ISqrt((d[i] * d[i] * (n - 1) * 10000) \div SS),
                  -600, 600)

\* the z_ columns of record i
zrow(t, i) == [c \in ZColumns |-> zscore(t, c, i)]

\* a QB score without the guard on pass attempts
compute_qb_stock_any_volume(r, z) ==
    20 * z["epa_per_play"] + 15 * z["cpoe"] + 20 * z["pass_yards"]
    + 25 * z["pass_tds"] + 20 * (z["rush_yards"] + z["rush_tds"])

\* compute_qb_stock (lines 435-470): None, read as 0.0, under 10 attempts
compute_qb_stock(r, z) ==
    IF r.pass_attempts < 10 THEN 0
    ELSE 20 * z["epa_per_play"] + 15 * z["cpoe"] + 20 * z["pass_yards"]
         + 25 * z["pass_tds"] + 20 * (z["rush_yards"] + z["rush_tds"])

\* compute_rb_stock (lines 473-503); the efficiency columns are not in
\* the table and count 0
compute_rb_stock(r, z) ==
    IF r.rush_attempts < 1 /\ r.targets < 1 THEN 0
    ELSE 25 * z["rush_yards"] + 20 * z["rush_tds"] + 15 * z["rec_yards"]

\* compute_wr_stock and compute_te_stock (lines 506-563)
compute_wr_stock(r, z) ==
    IF r.targets < 1 THEN 0
    ELSE 25 * z["rec_yards"] + 15 * z["targets"]

\* stock = 100 + 10 * C * B * M (lines 657-668)
stock(r, z) ==
    LET B == compute_qb_stock(r, z)
        M == 100 + z["epa_per_play"] + z["cpoe"]
        C == Min2(100, ISqrt((r.pass_attempts * 10000) \div 20))
    IN  1000000 + RDiv(RDiv(C * B, 100) * M * 10, 100)

\* pos_bucket (lines 1314-1331)
pos_bucket(p) ==
    IF p \in {"QB", "RB", "WR", "TE"} THEN p
    ELSE IF p \in {"LB", "CB", "S", "DL", "DE", "DT", "DB"} THEN "DEF"
    ELSE ""

\* the bucket of record i: the label's bucket, else QB by pass attempts
\* (by passing yards or touchdowns when no record has attempts), else WR by
\* targets, else RB by rushing yards (lines 1334-1394)
bucket(t, i) ==
    LET r      == t[i]
        pa_max == \E k \in 1..Len(t) : t[k].pass_attempts > 0
    IN  IF pos_bucket(r.position) # "" THEN pos_bucket(r.position)
        ELSE IF r.pass_attempts > 0 THEN "QB"
        ELSE IF ~pa_max /\ (r.pass_yards > 0 \/ r.pass_tds > 0) THEN "QB"
        ELSE IF r.targets > 0 THEN "WR"
        ELSE IF r.rush_yards > 0 THEN "RB"
        ELSE ""

\* the QB weekly_change of the bucket-based accumulation (lines 1484-1537),
\* which line 1567 replaces
qb_bucket_change(z) ==
    40 * z["epa_per_play"] + 25 * z["cpoe"] + 20 * z["pass_yards"]
    + 15 * z["pass_tds"] - 25 * z["ints"] + 10 * z["rush_yards"]
    + 10 * z["rush_tds"]

\* _compute_pos_score (lines 1551-1567): the value that replaces the
\* bucket-based weekly_change of lines 1395-1537; it dispatches on the
\* position label
compute_pos_score(r, z) ==
    IF r.position = "QB" THEN compute_qb_stock(r, z)
    ELSE IF r.position = "RB" THEN compute_rb_stock(r, z)
    ELSE IF r.position \in {"WR", "TE"} THEN compute_wr_stock(r, z)
    ELSE 0

\* the player names of the tables under study, in sort order
PlayerNames == <<"A", "B", "V", "W", "X", "Y", "Z", "nan">>

NameOrd(p) == CHOOSE i \in 1..Len(PlayerNames) : PlayerNames[i] = p

\* lexicographic order of two key tuples of the same length
LexLess(a, b) ==
    \E k \in 1..Len(a) : a[k] < b[k] /\ \A j \in 1..(k - 1) : a[j] = b[j]

\* DataFrame.sort_values on several columns: rows ordered by their keys,
\* rows with equal keys in their previous order
sort_values(rows, keys) ==
    LET n       == Len(rows)
        rank(i) == Cardinality({j \in 1..n :
                        \/ LexLess(keys[j], keys[i])
                        \/ keys[j] = keys[i] /\ j < i}) + 1
    IN  [p \in 1..n |-> rows[CHOOSE i \in 1..n : rank(i) = p]]

\* first day of 2025 as a day offset from 2025-09-05
Year2025 == -247

\* sort key of a date column value, NaT last
DateKey(d) == IF d = <<>> THEN 1000000 ELSE d[1]

\* the row handed to apply_volatility_multiplier for a record (line 1972):
\* the table has no __game_date column yet, and none of the context,
\* sentiment, volume or projection columns
vm_row(r, z, wc) ==
    [DefaultRow EXCEPT !.weekly_change = wc, !.week = r.week,
                       !.price = r.price,
                       !.z_epa_per_play = z["epa_per_play"],
                       !.z_cpoe = z["cpoe"],
                       !.pass_yards = r.pass_yards, !.pass_tds = r.pass_tds,
                       !.ints = r.ints]

\* df["player"] = df[player_found].astype(str) (line 1061)
normalize_player(r) == [r EXCEPT !.player = Str(r.player)]

\* _is_valid_row (lines 1177-1201): a non-blank player name and a usable
\* metric; no_metrics marks a record whose epa_per_play cell is empty, in
\* a table without plays and z_ columns
is_valid_row(r) == r.player # " " /\ ~r.no_metrics

\* result.sort_values(["player", "week"]) (line 1224)
sort_by_player_week(table) ==
    sort_values(table, [k \in 1..Len(table) |->
                          <<NameOrd(table[k].player), table[k].week>>])

\* last_game_delta (lines 1751-1763): 0.3 times the z_epa_per_play of the
\* player's previous row in the table sorted by player and week, 0.0 on
\* the player's first row; it is added to stock_value alone (line 1773),
\* a column of player_weekly_stock.csv
last_game_delta(t, z, i) ==
    IF i > 1 /\ t[i - 1].player = t[i].player
    THEN 30 * z[i - 1]["epa_per_play"] ELSE 0

\* the result table: the sorted records t with their z-scores z, stock,
\* bucket, weekly_change wc (line 1648) and the columns vm that
\* apply_volatility_multiplier adds (line 1972)
result_table(t, z, wc, vm) ==
    [i \in 1..Len(t) |->
        [ player        |-> t[i].player,
          week          |-> t[i].week,
          position      |-> t[i].position,
          game_date     |-> t[i].game_date,
          rec           |-> t[i],
          z             |-> z[i],
          bucket        |-> bucket(t, i),
          stock         |-> stock(t[i], z[i]),
          weekly_change |-> wc[i],
          last_game_delta |-> last_game_delta(t, z, i),
          rawChange     |-> vm[i].rawChange,
          multiplier    |-> vm[i].multiplier,
          applied_weekly_change |-> vm[i].applied_weekly_change,
          cappedChange  |-> vm[i].cappedChange,
          newPrice      |-> vm[i].newPrice ]]

\* the rows of rs at the indices idx, in order
RowsAt(rs, idx) ==
    [p \in 1..Cardinality(idx) |->
        rs[CHOOSE i \in idx : Cardinality({j \in idx : j < i}) = p - 1]]

\* summarize_latest (lines 898-920): the last record of every player
summarize_latest(rs) ==
    RowsAt(rs, {i \in 1..Len(rs) :
                   \A j \in (i + 1)..Len(rs) : rs[j].player # rs[i].player})

\* the records of one player in the order the timeline loop visits them:
\* by game date, NaT last, then by week (lines 2443-2448)
group_sorted(rs, p) ==
    LET g == RowsAt(rs, {i \in 1..Len(rs) : rs[i].player = p})
    IN  sort_values(g, [k \in 1..Len(g) |->
                           <<DateKey(g[k].game_date), g[k].week>>])

\* a date synthesis that numbers every dateless record by its position
week_date_by_position(r, i) == 7 * (i - 1)

\* the date synthesized for a record without a usable date: 2025-09-05
\* plus week-1 weeks, or plus the record's 0-based position in its group
\* when the week is not positive (lines 2466-2493); i is 1-based
week_date(r, i) == IF r.week > 0 THEN 7 * (r.week - 1) ELSE 7 * (i - 1)

\* missing, or before 2025 (lines 2455-2464)
replace_date(r) == r.game_date = <<>> \/ r.game_date[1] < Year2025

\* gdate of the i-th record of a group (lines 2453-2520)
gdate(g, i) == IF replace_date(g[i]) THEN week_date(g[i], i)
               ELSE g[i].game_date[1]

\* week_field (lines 2541-2565): the week, or the week derived from the
\* date when the week is 0
week_field(g, i) ==
    IF g[i].week = 0
    THEN LET dd == gdate(g, i)
             fl == IF dd >= 0 THEN dd \div 7 ELSE -((-dd + 6) \div 7)
         IN  Max2(1, fl + 1)
    ELSE g[i].week

\* the committed entry of the i-th record (lines 2566-2606)
entry(g, i) ==
    [ player    |-> g[i].player,
      timestamp |-> gdate(g, i),
      price     |-> g[i].stock,
      week      |-> <<week_field(g, i)>>,
      stock     |-> <<g[i].stock>> ]

\* the daily points interpolated between the previous record and the
\* i-th one (lines 2608-2637)
interpolated(g, i) ==
    IF i = 1 THEN <<>>
    ELSE LET prev_date  == gdate(g, i - 1)
             prev_price == g[i - 1].stock
             days       == gdate(g, i) - prev_date
         IN  IF days > 1
             THEN [d \in 1..(days - 1) |->
                     [ player    |-> g[i].player,
                       timestamp |-> prev_date + d,
                       price     |-> prev_price
                                     + RDiv((g[i].stock - prev_price) * d,
                                            days),
                       week      |-> <<>>,
                       stock     |-> <<>> ]]
             ELSE <<>>

RECURSIVE group_timeline(_, _)
group_timeline(g, i) ==
    IF i > Len(g) THEN <<>>
    ELSE <<entry(g, i)>> \o interpolated(g, i) \o group_timeline(g, i + 1)

RECURSIVE players_timeline(_, _)
players_timeline(rs, k) ==
    IF k > Len(PlayerNames) THEN <<>>
    ELSE group_timeline(group_sorted(rs, PlayerNames[k]), 1)
         \o players_timeline(rs, k + 1)

\* the history table: the players' timelines tl sorted by player and
\* timestamp (lines 2640-2664)
timeline(tl) ==
    sort_values(tl, [k \in 1..Len(tl) |->
                        <<NameOrd(tl[k].player), tl[k].timestamp>>])

----------------------------------------------------------------------------
(* Inputs of compute_player_stock_summary                                  *)

\* largest input table handed to compute_player_stock_summary
MaxTable == 3

DefaultRecord ==
    [ player        |-> "A", week          |-> 1,
      position      |-> "",  game_date     |-> <<>>,
      price         |-> 100, pass_attempts |-> 0,
      pass_yards    |-> 0,   pass_tds      |-> 0,
      ints          |-> 0,   rush_yards    |-> 0,
      rush_tds      |-> 0,   rush_attempts |-> 0,
      epa_per_play  |-> 0,   cpoe          |-> 0,
      targets       |-> 0,   rec_yards     |-> 0,
      no_metrics    |-> FALSE ]

\* three passers, two of them alike but for their interceptions, without a
\* position label and attempts, and labelled QB with 30 attempts
PasserRecords ==
    { [DefaultRecord EXCEPT !.player = q[1], !.pass_yards = q[2],
                            !.pass_tds = q[3], !.ints = q[4],
                            !.epa_per_play = q[5], !.cpoe = q[6],
                            !.position = l,
                            !.pass_attempts = IF l = "QB" THEN 30 ELSE 0] :
        q \in { <<"X", 20, 2, 3, 3, 4>>, <<"Y", 20, 2, 0, 3, 4>>,
                <<"Z", 17, 1, 0, 1, 1>> },
        l \in {"", "QB"} }

\* receivers and rushers, labelled and unlabelled, and records whose
\* stats match several inference rules
SkillRecords ==
    { [DefaultRecord EXCEPT !.player = "W", !.position = "WR",
                            !.targets = 8, !.rec_yards = 9],
      [DefaultRecord EXCEPT !.player = "V", !.targets = 5, !.rec_yards = 4],
      [DefaultRecord EXCEPT !.player = "V", !.pass_attempts = 25,
                            !.pass_yards = 12, !.targets = 3,
                            !.rush_yards = 2],
      [DefaultRecord EXCEPT !.player = "B", !.position = "RB",
                            !.rush_attempts = 10, !.rush_yards = 8],
      [DefaultRecord EXCEPT !.player = "B", !.rush_yards = 6],
      [DefaultRecord EXCEPT !.player = "B", !.position = "K",
                            !.pass_attempts = 12, !.pass_yards = 5] }

\* labelled records with little or no volume in their position's usage
LowVolumeRecords ==
    { [DefaultRecord EXCEPT !.player = "V", !.position = "QB",
                            !.pass_attempts = 5, !.pass_yards = 6,
                            !.epa_per_play = 2],
      [DefaultRecord EXCEPT !.player = "W", !.position = "WR"],
      [DefaultRecord EXCEPT !.player = "W", !.position = "TE",
                            !.rec_yards = 2],
      [DefaultRecord EXCEPT !.player = "B", !.position = "RB"] }

ScoreRecords == PasserRecords \cup SkillRecords \cup LowVolumeRecords

\* records of one player over several weeks: without dates, with dates of
\* the season, with a date of another era, without a week, and two
\* records of the same week
TimelineRecords ==
    { [DefaultRecord EXCEPT !.week = t[1], !.game_date = t[2],
                            !.pass_attempts = 20, !.epa_per_play = t[3],
                            !.pass_yards = t[4]] :
        t \in { <<1, <<>>, 2, 10>>, <<2, <<>>, 5, 30>>, <<1, <<>>, 4, 20>>,
                <<2, <<10>>, 1, 5>>, <<1, <<3>>, 3, 12>>, <<1, <<7>>, 6, 25>>,
                <<0, <<>>, 3, 15>>, <<0, <<>>, 6, 8>>,
                <<3, <<-20000>>, 2, 18>> } }
    \cup { [DefaultRecord EXCEPT !.player = "B", !.week = w,
                                 !.pass_attempts = 20, !.epa_per_play = 4] :
             w \in {0, 1} }

\* pd.read_csv(inp), one record of the file after the other (line 929)
ReadCsv(r) ==
    /\ last_run.script = "none"
    /\ Len(df) < MaxTable
    /\ df' = Append(df, r)
    /\ UNCHANGED <<result, summary, timeline_rows, volVars, pipeVars,
                   updVars, last_run>>

\* summary = compute_player_stock_summary(input_path, output_path): the
\* records are validated (lines 1170-1208), the run exits with status 3
\* when none is valid (lines 1211-1216), and else scores the valid records
\* and writes the summary and the history
ComputePlayerStockSummary ==
    /\ last_run.script = "none"
    /\ \E valid \in {SelectSeq([i \in 1..Len(df) |-> normalize_player(df[i])],
                               is_valid_row)} :
          IF valid = <<>>
          THEN /\ last_run' = Run("compute_player_stock_summary", 3, 0,
                                  FALSE, {})
               /\ UNCHANGED <<result, summary, timeline_rows>>
          ELSE /\ \E t \in {sort_by_player_week(valid)} :
                  \E z \in {[i \in 1..Len(t) |-> zrow(t, i)]} :
                  \E wc \in {[i \in 1..Len(t) |->
                                  compute_pos_score(t[i], z[i])]} :
                  \E b \in {[i \in 1..Len(t) |->
                                 vm_row(t[i], z[i], wc[i])]} :
                  \E vm \in {apply_volatility_multiplier(b)} :
                     result' = result_table(t, z, wc, vm)
               /\ summary' = summarize_latest(result')
               /\ \E tl \in {players_timeline(result', 1)} :
                     timeline_rows' = timeline(tl)
               /\ last_run' = Run("compute_player_stock_summary", 0, 0,
                                  FALSE, {})
    /\ UNCHANGED <<df, volVars, pipeVars, updVars>>

\* records with and without a usable identity and with and without a
\* usable metric
ValidationRecords ==
    { [DefaultRecord EXCEPT !.player = q[1], !.no_metrics = q[2],
                            !.position = "QB", !.pass_attempts = 30,
                            !.pass_yards = q[3], !.epa_per_play = q[4]] :
        q \in { <<"X", FALSE, 20, 3>>, <<"Z", FALSE, 17, 1>>,
                <<"NaN", FALSE, 12, 2>>, <<" ", FALSE, 9, 4>>,
                <<"Y", TRUE, 15, 0>>, <<"NaN", TRUE, 11, 0>> } }

NextSum == (\E r \in ScoreRecords : ReadCsv(r)) \/ ComputePlayerStockSummary

NextTl == (\E r \in TimelineRecords : ReadCsv(r)) \/ ComputePlayerStockSummary

NextVal ==
    (\E r \in ValidationRecords : ReadCsv(r)) \/ ComputePlayerStockSummary

----------------------------------------------------------------------------
(* Specifications                                                          *)

NoRun == Run("none", 0, 0, FALSE, {})

VolIdle == res = <<>> /\ out = <<>>

PipeIdle ==
    /\ weekly = [w \in Weeks |-> NoFile]
    /\ prices = [w \in 0..MaxWeek |-> NoFile]
    /\ history = [p \in Players |-> <<>>]

SumIdle == df = <<>> /\ result = <<>> /\ summary = <<>> /\ timeline_rows = <<>>

UpdIdle ==
    /\ stats = [w \in Weeks |-> NoFile]
    /\ price_map = << >>
    /\ csv_history = << >>
    /\ json_history = << >>
    /\ updated_log = << >>

\* apply_volatility_multiplier on every batch of up to MaxRows rows
InitV == InitVol /\ PipeIdle /\ UpdIdle /\ SumIdle /\ last_run = NoRun

SpecVol == InitV /\ [][NextVol]_vars

\* the weekly pipeline scripts run in any order for any week
InitP == VolIdle /\ InitPipe /\ UpdIdle /\ SumIdle /\ last_run = NoRun

SpecPipe == InitP /\ [][NextPipe]_vars

\* both script families, each started on its own input files
InitH == VolIdle /\ SumIdle /\ last_run = NoRun
         /\ \/ InitPipe /\ UpdIdle
            \/ PipeIdle /\ InitUpd

NextH ==
    \/ \E w \in Weeks : ComputeWeeklyPrices(w)
    \/ \E w \in Weeks : \E pen \in {-7, 5} : AppendPriceHistory(w, pen)
    \/ \E w \in Weeks : RunWeeklyUpdate(w)
    \/ \E wk \in Weeks : \E force \in BOOLEAN : UpdateWeeklyPrices(wk, force)

SpecHist == InitH /\ [][NextH]_vars

\* compute_player_stock_summary on every table of scoring records
InitS == VolIdle /\ PipeIdle /\ UpdIdle /\ SumIdle /\ last_run = NoRun

SpecSum == InitS /\ [][NextSum]_vars

\* compute_player_stock_summary on every table of timeline records
SpecTl == InitS /\ [][NextTl]_vars

\* compute_player_stock_summary on every table of records that may fail
\* the validation
SpecVal == InitS /\ [][NextVal]_vars

\* the merge run on every CSV history of up to MaxCsv rows
InitM == VolIdle /\ PipeIdle /\ SumIdle /\ InitMerge /\ last_run = NoRun

SpecMerge == InitM /\ [][NextMerge]_vars

\* update_weekly_prices run in any order for any week
InitU == VolIdle /\ PipeIdle /\ InitUpd /\ SumIdle /\ last_run = NoRun

SpecUpd == InitU /\ [][NextUpd]_vars

----------------------------------------------------------------------------
(* Properties of apply_volatility_multiplier (SpecVol)                     *)

Applied == out # <<>>

\* C1: for every row of every batch (single-record, multi-record and
\* projection-fallback path), cappedChange lies in [-0.20, 0.20].
C1_CappedWithinHardCap ==
    \A i \in 1..Len(out) :
        out[i].cappedChange >= -2000 /\ out[i].cappedChange <= 2000

\* C2: for every row of every batch, |cappedChange| <= 0.25, whether or
\* not the hard clamp fires.
C2_CappedWithinSmoothBound ==
    \A i \in 1..Len(out) : Abs(out[i].cappedChange) <= 2500

\* a multi-record batch in which the smoothed value of a row went past the
\* hard cap and reached the smoothing bound
C2_Witness ==
    /\ Len(out) > 1
    /\ \E i \in 1..Len(out) :
          out[i].cappedChange > 2000 /\ out[i].applied_weekly_change > 2500

\* the row is a playoff row by any of the flags
IsPlayoff(r) ==
    r.is_playoff \/ r.game_type \in {"post", "playoff"} \/ r.event = "super bowl"

\* the row is an off-week row: flagged as not a gameday, and not a playoff
IsOffWeek(r) == r.is_gameday = "False" /\ ~IsPlayoff(r)

\* C8: the 0.995 decay is applied exactly once to the rows of an off-week
\* (no game and not a playoff period) and never to game-week rows:
\* newPrice = price*(1+cappedChange)*0.995 for an off-week row and
\* newPrice = price*(1+cappedChange) for any other row, up to the 4-decimal
\* rounding of the stored newPrice.
C8_DecayOnlyOffWeek ==
    \A i \in 1..Len(out) :
        LET pre    == res[i].price * (10000 + out[i].cappedChange)
            expect == IF IsOffWeek(res[i]) THEN pre * 995 ELSE pre * 1000
        IN  /\ Abs(out[i].newPrice - expect) <= 500
            /\ out[i].offseason_decay_applied = IsOffWeek(res[i])

\* a batch with a decayed off-week row next to an undecayed game-week row
\* and an undecayed playoff row that is flagged as not a gameday
C8_Witness ==
    /\ Applied
    /\ \E i \in 1..Len(out) :
          /\ IsOffWeek(res[i])
          /\ out[i].newPrice = res[i].price * (10000 + out[i].cappedChange) * 995
    /\ \E j \in 1..Len(out) :
          /\ res[j].is_gameday = "False" /\ IsPlayoff(res[j])
          /\ out[j].newPrice = res[j].price * (10000 + out[j].cappedChange) * 1000

\* the row is a primetime row by any of the flags
IsPrimetime(r) ==
    r.is_primetime \/ r.game_date \in {"Mon", "Thu", "Sun"} \/ r.kickoff = "evening"

\* the row has a scheduled game
IsScheduled(r) == r.week > 0 \/ r.game_date # "NaT"

\* C9: the multiplier of a row is the value of the highest-precedence
\* condition that matches, playoff (2.0) > primetime (1.75) > scheduled
\* game (1.5) > rest (1.0), and no other value is produced.
C9_MultiplierPrecedence ==
    \A i \in 1..Len(out) :
        out[i].multiplier =
            IF IsPlayoff(res[i]) THEN 200
            ELSE IF IsPrimetime(res[i]) THEN 175
            ELSE IF IsScheduled(res[i]) THEN 150
            ELSE 100

\* a batch holding a row that is playoff and primetime at once (2.0) and a
\* primetime row without a scheduled week (1.75)
C9_Witness ==
    /\ Applied
    /\ \E i \in 1..Len(out) :
          IsPlayoff(res[i]) /\ IsPrimetime(res[i]) /\ out[i].multiplier = 200
    /\ \E j \in 1..Len(out) :
          /\ ~IsPlayoff(res[j]) /\ IsPrimetime(res[j]) /\ res[j].week = 0
          /\ out[j].multiplier = 175

\* weekly_change adjusted by the sentiment factor: multiplied by it when
\* the change is not negative, divided by it when it is
SentimentAdjusted(r) ==
    LET sf == Clip(1000 + 10 * r.sentiment_score, 800, 1200)
    IN  IF r.weekly_change >= 0 THEN RDiv(r.weekly_change * sf, 1000)
        ELSE RDiv(r.weekly_change * 1000, sf)

C11_BlendSmoothHardClamp ==
    (Len(out) > 1 /\ \E k \in 1..Len(res) : res[k].weekly_change # 0) =>
        \A i \in 1..Len(out) :
            LET p    == SentimentAdjusted(res[i])
                m    == RDiv(market_change(res, i) * out[i].multiplier, 100)
                app  == RDiv(7 * p + 3 * m, 10)
                big  == /\ Abs(RDiv(p * out[i].multiplier, 100)) > 2000
                        /\ Abs(res[i].weekly_change) >= 2000
            IN  /\ out[i].applied_weekly_change = app
                /\ out[i].cappedChange =
                       IF big THEN Sign(res[i].weekly_change) * 2000
                       ELSE RDiv(Tanh(RDiv(5 * app, 2)), 400)

\* a two-row batch with a hard-clamped row (-0.20) next to a row whose
\* performance*multiplier passes 0.20 while its weekly_change stays under
\* 0.20, so that it keeps the smoothed value
C11_Witness ==
    /\ Len(out) = 2
    /\ \E i \in 1..2 :
          res[i].weekly_change <= -2000 /\ out[i].cappedChange = -2000
    /\ \E j \in 1..2 :
          /\ res[j].weekly_change = 1900
          /\ RDiv(SentimentAdjusted(res[j]) * out[j].multiplier, 100) > 2000
          /\ out[j].cappedChange # 2000
          /\ out[j].cappedChange > 0

\* every row of the batch comes without an explicit weekly_change
NoExplicitChange == \A k \in 1..Len(res) : res[k].weekly_change = 0

\* 0.35*z(efficiency) + 0.25*z(cpoe) + 0.20*dyards + 0.15*dtds - 0.20*dints
\* with d = (actual - projected)/projected, -0.5 for a missing projection
FallbackRaw(r) ==
    LET d(a, p) == IF p # 0 THEN RDiv((a - p) * 10000, p) ELSE -5000
    IN  35 * r.z_epa_per_play + 25 * r.z_cpoe
        + RDiv(20 * d(r.pass_yards, r.proj_yards)
               + 15 * d(r.pass_tds, r.proj_tds)
               - 20 * d(r.ints, r.proj_ints), 100)

\* C14: the projection-based fallback is used for a batch exactly when
\* weekly_change is absent or zero on every row; as soon as one row carries
\* a non-zero weekly_change every row of the batch, rows with a zero
\* weekly_change included, is computed from the explicit value and none
\* from the fallback.
C14_FallbackIffAllZero ==
    \A i \in 1..Len(out) :
        IF NoExplicitChange
        THEN /\ out[i].projection_delta # <<>>
             /\ out[i].rawChange = FallbackRaw(res[i])
        ELSE /\ out[i].projection_delta = <<>>
             /\ out[i].rawChange = res[i].weekly_change
             /\ out[i].applied_weekly_change =
                    IF Len(out) = 1
                    THEN RDiv(SentimentAdjusted(res[i]) * out[i].multiplier,
                              100)
                    ELSE RDiv(7 * SentimentAdjusted(res[i])
                              + 3 * RDiv(market_change(res, i)
                                         * out[i].multiplier, 100), 10)

\* a batch in which a row with a zero weekly_change, whose fallback value
\* would not be zero, sits before a row with an explicit change, and is
\* computed from the explicit zero
C14_Witness ==
    /\ Len(out) = 2
    /\ res[1].weekly_change = 0 /\ FallbackRaw(res[1]) # 0
    /\ res[2].weekly_change # 0
    /\ out[1].rawChange = 0 /\ out[1].projection_delta = <<>>
    /\ out[1].applied_weekly_change = 0

\* the three projections are present and exactly met
ProjectionsMet(r) ==
    /\ r.proj_yards # 0 /\ r.proj_yards = r.pass_yards
    /\ r.proj_tds # 0 /\ r.proj_tds = r.pass_tds
    /\ r.proj_ints # 0 /\ r.proj_ints = r.ints

\* r is m with a non-empty subset of its projections missing
SomeProjectionsMissing(r, m) ==
    /\ r # m
    /\ r.proj_yards \in {0, m.proj_yards}
    /\ r.proj_tds \in {0, m.proj_tds}
    /\ r.proj_ints \in {0, m.proj_ints}
    /\ [r EXCEPT !.proj_yards = 0, !.proj_tds = 0, !.proj_ints = 0]
          = [m EXCEPT !.proj_yards = 0, !.proj_tds = 0, !.proj_ints = 0]

\* C15: in the projection fallback a missing projection is a penalty: a
\* record with any non-empty subset of proj_yards, proj_tds, proj_ints
\* missing gets a strictly lower raw change, and never a higher newPrice,
\* than the same record with those projections present and exactly met;
\* with all three missing (and no other signal) newPrice is below price.
C15_MissingProjectionPenalty ==
    (Applied /\ NoExplicitChange) =>
        /\ \A i, j \in 1..Len(out) :
              (ProjectionsMet(res[i]) /\ SomeProjectionsMissing(res[j], res[i]))
                  => /\ out[j].rawChange < out[i].rawChange
                     /\ out[j].newPrice <= out[i].newPrice
        /\ \A i \in 1..Len(out) :
              ( /\ res[i].proj_yards = 0 /\ res[i].proj_tds = 0
                /\ res[i].proj_ints = 0
                /\ res[i].z_epa_per_play = 0 /\ res[i].z_cpoe = 0
                /\ res[i].sentiment_score = 0 /\ res[i].price > 0 )
                  => out[i].newPrice < res[i].price * 10000000

\* C30: the off-week decay and a game multiplier are mutually exclusive:
\* for every row, offseason_decay_applied implies multiplier = 1.0, and
\* multiplier > 1.0 implies that newPrice is price * (1 + cappedChange)
\* without the 0.995 decay
C30_DecayExcludesMultiplier ==
    \A i \in 1..Len(out) :
        /\ out[i].offseason_decay_applied => out[i].multiplier = 100
        /\ out[i].multiplier > 100
              => out[i].newPrice
                    = res[i].price * (10000 + out[i].cappedChange) * 1000

----------------------------------------------------------------------------
(* Properties of the stored histories (SpecPipe, SpecUpd, SpecHist)        *)

IsPrefix(a, b) == Len(a) <= Len(b) /\ \A i \in 1..Len(a) : a[i] = b[i]

\* C3: after any sequence of runs of append_price_history with arbitrary
\* week arguments, no player's history file holds two entries with the
\* same week.
C3_OneEntryPerWeek ==
    \A p \in Players :
        \A i, j \in 1..Len(history[p]) :
            i # j => history[p][i].week # history[p][j].week

\* C4: running the weekly pipeline a second time for the same week on
\* unchanged input is a no-op: every history is unchanged and the week's
\* price file holds the prices the first run wrote.
C4_RerunIsNoOp ==
    [][ ( /\ last_run.script = "run_weekly_update"
          /\ last_run'.script = "run_weekly_update"
          /\ last_run'.week = last_run.week )
        => ( /\ history' = history
             /\ prices'[last_run.week] = prices[last_run.week] ) ]_vars

\* C5: over any sequence of runs of update_weekly_prices without
\* --force-append, a player's currentPrice is changed at most once for each
\* week number.
C5_AppliedOncePerWeek ==
    (\A k \in 1..Len(updated_log) : ~updated_log[k].force) =>
        \A i, j \in 1..Len(updated_log) :
            i # j => \/ updated_log[i].playerId # updated_log[j].playerId
                     \/ updated_log[i].week # updated_log[j].week

\* rows of the CSV history of player p and week w
CsvRows(p, w) ==
    {i \in 1..Len(csv_history) :
        csv_history[i].playerId = p /\ csv_history[i].week = w}

\* C6: after a --force-append run for a week a player was already updated
\* for, the CSV history holds exactly one point of that player and week,
\* and that point carries the recomputed price.
C6_ForceOverwritesPoint ==
    (last_run.script = "update_weekly_prices" /\ last_run.force) =>
        \A p \in last_run.updated :
            Cardinality({k \in 1..Len(updated_log) :
                            /\ updated_log[k].playerId = p
                            /\ updated_log[k].week = last_run.week}) >= 2
            =>
            /\ Cardinality(CsvRows(p, last_run.week)) = 1
            /\ \A i \in CsvRows(p, last_run.week) :
                  csv_history[i].price = price_map[p].currentPrice

\* C7: stored price history is append-only: over every run of
\* append_price_history and every run of update_weekly_prices without a
\* force flag, each player's history before the run is a prefix of that
\* player's history after the run.
C7_AppendOnly ==
    [][ /\ \A p \in Players : IsPrefix(history[p], history'[p])
        /\ ~last_run'.force => IsPrefix(csv_history, csv_history') ]_vars

\* a run has just extended a stored history that already held entries:
\* a per-player JSON history, or the CSV history
C7_Witness ==
    \/ /\ last_run.script = "append_price_history"
       /\ \E p \in Players : Len(history[p]) = MaxHist
    \/ /\ last_run.script = "update_weekly_prices" /\ ~last_run.force
       /\ last_run.updated # {}
       /\ Len(csv_history) >= 2
       /\ csv_history[Len(csv_history)].week = last_run.week
       /\ csv_history[1].week # last_run.week

\* the points the JSON history store holds for player p
JsonPoints(j, p) == IF p \in DOMAIN j THEN Len(j[p]) ELSE 0

\* the rows a step appended to the CSV history store for player p
AppendedRows(p) ==
    {i \in (Len(csv_history) + 1)..Len(csv_history') :
        csv_history'[i].playerId = p}

\* C27: whenever a run of update_weekly_prices appends rows to the CSV
\* history store, it appends one point per appended row to the JSON
\* history store
C27_JsonFollowsCsv ==
    [][ Len(csv_history') > Len(csv_history)
        => \A p \in {csv_history'[i].playerId : i \in 1..Len(csv_history')} :
              JsonPoints(json_history', p)
                 = JsonPoints(json_history, p) + Cardinality(AppendedRows(p))
      ]_vars

\* C28: after any sequence of runs of update_weekly_prices, for every
\* player whose price-file entry has lastUpdatedWeek = w, the CSV history
\* row of that player and week w carries the entry's currentPrice
C28_HistoryMatchesPriceFile ==
    \A p \in DOMAIN price_map :
        LET w == price_map[p].lastUpdatedWeek
        IN  /\ CsvRows(p, w) # {}
            /\ \A i \in CsvRows(p, w) :
                  csv_history[i].price = price_map[p].currentPrice

\* C29: a did-not-play week never raises a price: every DNP entry of a
\* history has close <= the previous close (its open), under the defaults
\* of append_price_history and under those of run_weekly_update
C29_DnpNeverRaises ==
    \A p \in Players : \A i \in 1..Len(history[p]) :
        history[p][i].reason = "DNP"
            => history[p][i].close <= history[p][i].open

----------------------------------------------------------------------------
(* Properties of compute_player_stock_summary (SpecSum, SpecTl)            *)

\* two records that agree on everything but the player and the
\* interception count
SameButInts(r, m) ==
    [r EXCEPT !.player = "A", !.ints = 0] = [m EXCEPT !.player = "A", !.ints = 0]

\* C12: interceptions penalize: of two QB records of one table that are
\* identical except for their interception count, the one with fewer
\* interceptions has the strictly greater rawChange in the summary.
C12_InterceptionsPenalize ==
    \A i, j \in 1..Len(summary) :
        ( /\ summary[i].bucket = "QB" /\ summary[j].bucket = "QB"
          /\ SameButInts(summary[i].rec, summary[j].rec)
          /\ summary[i].rec.ints < summary[j].rec.ints )
            => summary[i].rawChange > summary[j].rawChange


\* C13: the weekly_change committed for a QB record is 0.40 z(efficiency)
\* + 0.25 z(completion over expected) + 0.20 z(pass yards) + 0.15 z(pass
\* TDs) - 0.25 z(interceptions) + 0.10 z(rush yards) + 0.10 z(rush TDs).
C13_QbRawDelta ==
    \A i \in 1..Len(result) :
        result[i].bucket = "QB"
            => result[i].weekly_change = qb_bucket_change(result[i].z)


\* the committed (non-interpolated) points of the history table
Committed == {k \in 1..Len(timeline_rows) : timeline_rows[k].week # <<>>}

\* C16: the history holds, for every player, at most one committed point
\* per week, for any input table, also one with several records of the
\* same player and week.
C16_OneCommittedPointPerWeek ==
    \A k, l \in Committed :
        ( /\ timeline_rows[k].player = timeline_rows[l].player
          /\ timeline_rows[k].week = timeline_rows[l].week ) => k = l


\* the committed points of player p dated t, and the interpolated ones
CommittedAt(p, t) ==
    {k \in Committed : timeline_rows[k].player = p
                        /\ timeline_rows[k].timestamp = t}

InterpolatedAt(p, t) ==
    {k \in 1..Len(timeline_rows) :
        /\ timeline_rows[k].week = <<>>
        /\ timeline_rows[k].player = p
        /\ timeline_rows[k].timestamp = t}

\* t0 < t1 are dates of committed points of p with no committed point of
\* p between them
AdjacentDates(p, t0, t1) ==
    /\ t0 < t1
    /\ CommittedAt(p, t0) # {} /\ CommittedAt(p, t1) # {}
    /\ \A k \in Committed :
          timeline_rows[k].player = p
              => ~(t0 < timeline_rows[k].timestamp
                   /\ timeline_rows[k].timestamp < t1)

TimelineDates == {timeline_rows[k].timestamp : k \in 1..Len(timeline_rows)}

TimelinePlayers == {timeline_rows[k].player : k \in 1..Len(timeline_rows)}

\* C17: between two chronologically adjacent committed points of a
\* player that lie d > 1 days apart the timeline holds exactly d-1
\* interpolated points, one per intermediate day, the k-th priced
\* p0 + (p1 - p0) * k / d; committed points sharing a date may each serve
\* as p0 or p1.
C17_DailyInterpolation ==
    \A p \in TimelinePlayers : \A t0, t1 \in TimelineDates :
        AdjacentDates(p, t0, t1) =>
            \A e \in 1..(t1 - t0 - 1) :
                /\ Cardinality(InterpolatedAt(p, t0 + e)) = 1
                /\ \A k \in InterpolatedAt(p, t0 + e) :
                      \E a \in CommittedAt(p, t0), c \in CommittedAt(p, t1) :
                          timeline_rows[k].price
                              = timeline_rows[a].price
                                + RDiv((timeline_rows[c].price
                                        - timeline_rows[a].price) * e,
                                       t1 - t0)


\* the date claimed for a record: its own date when usable, else
\* 2025-09-05 plus week-1 weeks
DateOfWeek(r) ==
    IF replace_date(r) THEN 7 * (r.week - 1) ELSE r.game_date[1]

RecordsOf(p) == {i \in 1..Len(result) : result[i].player = p}

CommittedOf(p) == {k \in Committed : timeline_rows[k].player = p}

\* C18 as stated: every record whose date is missing or earlier than 2025
\* has its committed point on 2025-09-05 plus 7*(week-1) days, whatever
\* the player, the other records and their order: on every date a player
\* has as many committed points as records with that date.
C18_DateFromWeekAlone ==
    \A i \in 1..Len(result) :
        Cardinality(CommittedAt(result[i].player, DateOfWeek(result[i])))
            = Cardinality({j \in RecordsOf(result[i].player) :
                              DateOfWeek(result[j]) = DateOfWeek(result[i])})

\* C18, amended: every record with a week index of at least 1 whose date
\* is missing or earlier than 2025 has its committed point on 2025-09-05
\* plus 7*(week-1) days, whatever the player, the other records and their
\* order: every record has one committed point, and on every date a player
\* has at least as many committed points as records with a week index of
\* at least 1 or a usable date that belong on that date.
C18_DateFromPositiveWeek ==
    \A i \in 1..Len(result) :
        /\ Cardinality(CommittedOf(result[i].player))
              = Cardinality(RecordsOf(result[i].player))
        /\ (result[i].week >= 1 \/ ~replace_date(result[i])) =>
              Cardinality(CommittedAt(result[i].player, DateOfWeek(result[i])))
                >= Cardinality({j \in RecordsOf(result[i].player) :
                       /\ result[j].week >= 1 \/ ~replace_date(result[j])
                       /\ DateOfWeek(result[j]) = DateOfWeek(result[i])})

\* a table with a dateless record of week 2 or later that is the first of
\* its player's group, next to records of another date, has been
\* processed
C18_Witness ==
    \E i, j \in 1..Len(result) :
        /\ replace_date(result[i]) /\ result[i].week >= 2
        /\ result[j].player = result[i].player
        /\ DateOfWeek(result[j]) # DateOfWeek(result[i])
        /\ \E k \in Committed :
              /\ timeline_rows[k].player = result[i].player
              /\ timeline_rows[k].timestamp = 7 * (result[i].week - 1)


\* the records of the table that share the bucket of record i, and the
\* place of record i among them
OwnBucket(i) == {j \in 1..Len(result) : result[j].bucket = result[i].bucket}

BucketTable(i) == RowsAt([k \in 1..Len(result) |-> result[k].rec], OwnBucket(i))

PlaceInBucket(i) == Cardinality({j \in OwnBucket(i) : j <= i})

\* C19: the z-scores of a record depend only on the records of its own
\* position bucket: they are the z-scores the record has in the table
\* without the records of the other buckets.
C19_ZScoresWithinBucket ==
    \A i \in 1..Len(result) :
        result[i].z = zrow(BucketTable(i), PlaceInBucket(i))


\* the bucket the stated priority gives a record: a recognized label, else
\* QB by pass attempts, else WR by targets, else RB by rushing yards,
\* else unknown
PriorityBucket(r) ==
    IF pos_bucket(r.position) # "" THEN pos_bucket(r.position)
    ELSE IF r.pass_attempts > 0 THEN "QB"
    ELSE IF r.targets > 0 THEN "WR"
    ELSE IF r.rush_yards > 0 THEN "RB"
    ELSE ""

\* the raw deltas the scoring function of bucket b can give record r
BucketScores(b, r, z) ==
    IF b = "QB" THEN {compute_qb_stock(r, z), qb_bucket_change(z)}
    ELSE IF b = "RB" THEN {compute_rb_stock(r, z)}
    ELSE IF b \in {"WR", "TE"} THEN {compute_wr_stock(r, z)}
    ELSE {0}

\* C20: every record gets exactly one bucket by strict priority (label,
\* QB by pass attempts, WR by targets, RB by rushing yards, unknown), and
\* the scoring function of that bucket produces the record's weekly_change.
C20_ClassifierPriority ==
    \A i \in 1..Len(result) :
        /\ result[i].bucket = PriorityBucket(result[i].rec)
        /\ result[i].weekly_change
              \in BucketScores(result[i].bucket, result[i].rec, result[i].z)


\* C21 as stated: a record below the volume threshold of its position
\* (pass attempts < 10 for QB, targets < 1 for RB, WR and TE) has a raw
\* score of exactly 0, whatever its z-scores.
C21_LowVolumeGuard ==
    \A i \in 1..Len(result) :
        ( \/ result[i].bucket = "QB" /\ result[i].rec.pass_attempts < 10
          \/ result[i].bucket \in {"RB", "WR", "TE"}
                /\ result[i].rec.targets < 1 )
            => result[i].weekly_change = 0

\* C21, amended: a record below the volume threshold of its position (pass
\* attempts < 10 for QB, targets < 1 for WR and TE, both rush attempts < 1
\* and targets < 1 for RB) has a raw score of exactly 0, whatever its
\* z-scores.
C21_LowVolumeGuardByPosition ==
    \A i \in 1..Len(result) :
        ( \/ result[i].bucket = "QB" /\ result[i].rec.pass_attempts < 10
          \/ result[i].bucket \in {"WR", "TE"} /\ result[i].rec.targets < 1
          \/ result[i].bucket = "RB" /\ result[i].rec.targets < 1
                /\ result[i].rec.rush_attempts < 1 )
            => result[i].weekly_change = 0

\* a record labelled QB with fewer than 10 attempts and non-zero z-scores
\* in the columns of the QB score has been scored
C21_Witness ==
    \E i \in 1..Len(result) :
        /\ result[i].position = "QB" /\ result[i].rec.pass_attempts < 10
        /\ compute_qb_stock_any_volume(result[i].rec, result[i].z) # 0
        /\ result[i].weekly_change = 0


\* the rows of the player of row i in the week that immediately precedes
\* the week of row i
PrecedingWeekRows(i) ==
    {j \in RecordsOf(result[i].player) :
        /\ result[j].week < result[i].week
        /\ \A k \in RecordsOf(result[i].player) :
              result[k].week < result[i].week
                  => result[k].week <= result[j].week}

\* C22: the weekly_change committed for a player's week is the position
\* score plus a momentum term of 0.3 times the same player's
\* z(efficiency) of the immediately preceding week, 0 when the player has
\* no earlier week; the price of the week is computed from that delta.
C22_MomentumInDelta ==
    \A i \in 1..Len(result) :
        /\ PrecedingWeekRows(i) = {}
              => result[i].weekly_change
                   = compute_pos_score(result[i].rec, result[i].z)
        /\ \A j \in PrecedingWeekRows(i) :
              Cardinality(PrecedingWeekRows(i)) = 1
                  => result[i].weekly_change
                       = compute_pos_score(result[i].rec, result[i].z)
                         + 30 * result[j].z["epa_per_play"]


\* identities that stand for a record without a player id and name
PlaceholderNames == {"nan", "unknown", "", " ", "player_0", "player_1", "player_2"}

\* C23: a record with no usable identity is dropped and never appears in
\* an output under a placeholder identity: no row of the summary, the
\* result table and the history of compute_player_stock_summary, no entry
\* of the price file and no row of the CSV history of update_weekly_prices
\* carries a name such as 'player_<index>', 'nan' or 'unknown'.
C23_NoPlaceholderIdentity ==
    /\ \A i \in 1..Len(result) : result[i].player \notin PlaceholderNames
    /\ \A i \in 1..Len(summary) : summary[i].player \notin PlaceholderNames
    /\ \A k \in 1..Len(timeline_rows) :
          timeline_rows[k].player \notin PlaceholderNames
    /\ DOMAIN price_map \cap PlaceholderNames = {}
    /\ \A i \in 1..Len(csv_history) :
          csv_history[i].playerId \notin PlaceholderNames


\* C24: an input batch that is empty or has no valid record is a hard stop:
\* compute_player_stock_summary and compute_weekly_prices end with a
\* non-zero status and write no output file
NoValidRecord(rows) == parsed(rows) = <<>>

NoValidSummaryRecord ==
    \A i \in 1..Len(df) : ~is_valid_row(normalize_player(df[i]))

C24_HardStopOnEmptyBatch ==
    /\ last_run.script = "compute_weekly_prices"
       /\ NoValidRecord(weekly[last_run.week].rows)
          => last_run.status # 0
    /\ \A w \in Weeks :
          NoValidRecord(weekly[w].rows) => ~prices[w].exists
    /\ last_run.script = "compute_player_stock_summary"
       /\ NoValidSummaryRecord
          => /\ last_run.status # 0
             /\ result = <<>> /\ summary = <<>> /\ timeline_rows = <<>>


\* C25: every committed price is strictly positive: no newPrice of
\* apply_volatility_multiplier, no price written by compute_weekly_prices,
\* no currentPrice stored by update_weekly_prices and no entry appended by
\* append_price_history is <= 0
C25_PricesPositive ==
    /\ \A i \in 1..Len(out) : out[i].newPrice > 0
    /\ \A w \in 0..MaxWeek : \A i \in 1..Len(prices[w].rows) :
          prices[w].rows[i].price > 0
    /\ \A p \in DOMAIN price_map : price_map[p].currentPrice > 0
    /\ \A p \in Players : \A i \in 1..Len(history[p]) :
          history[p][i].close > 0


----------------------------------------------------------------------------
(* Properties of merge_price_history_csv_to_json (SpecMerge)               *)

Merged == last_run.script = "merge_price_history_csv_to_json"

\* the rows of player pid for (season, week) k that carry a price
RowsFor(pid, k) ==
    {i \in 1..Len(csv_history) :
        /\ csv_history[i].playerId = pid
        /\ <<csv_history[i].season, csv_history[i].week>> = k
        /\ "price" \in DOMAIN csv_history[i]}

LastOf(S) == CHOOSE i \in S : \A j \in S : j <= i

\* C26: the merge emits for every player at most one point per
\* (season, week), in ascending (season, week) order, and a point stands
\* for the last CSV row of its player, season and week
C26_LastRowPerWeekSorted ==
    Merged =>
      \A pid \in DOMAIN json_history :
        LET pts == json_history[pid]
        IN  /\ \A m, n \in 1..Len(pts) :
                  m < n => \/ pts[m].t[1] < pts[n].t[1]
                           \/ /\ pts[m].t[1] = pts[n].t[1]
                              /\ pts[m].t[2] < pts[n].t[2]
            /\ \A n \in 1..Len(pts) :
                  /\ RowsFor(pid, pts[n].t) # {}
                  /\ LET row == csv_history[LastOf(RowsFor(pid, pts[n].t))]
                     IN  /\ pts[n].p = row.price
                         /\ pts[n].weekly_pct_change
                               = <<row.weekly_pct_change>>
                         /\ pts[n].performance_score
                               = <<row.performance_score>>

\* a player with two rows of different prices for one week and a later
\* week stored before an earlier one
C26_Witness ==
    /\ Merged
    /\ \E pid \in DOMAIN json_history :
          /\ Len(json_history[pid]) >= 2
          /\ \E k \in {json_history[pid][n].t :
                          n \in 1..Len(json_history[pid])} :
                \E i, j \in RowsFor(pid, k) :
                    i < j /\ csv_history[i].price # csv_history[j].price
          /\ \E i, j \in 1..Len(csv_history) :
                /\ i < j
                /\ csv_history[i].playerId = pid
                /\ csv_history[j].playerId = pid
                /\ csv_history[j].season < csv_history[i].season

=============================================================================
